---- MODULE Spec2Model ----
(* UK number validator: the normaliser, the prefix index (digit trie) and   *)
(* the classifier of classifyUkNumber.ts, driven as run-tests.ts drives     *)
(* them: normalise the input, reject a null result, build the index from    *)
(* the rule list, classify.                                                 *)
(*                                                                          *)
(* Strings are sequences of one-character strings, so that the code's       *)
(* character-level work (stripping non-digits, startsWith, slice, the       *)
(* case-insensitive status regex) is computed and not assumed.              *)
EXTENDS Integers, Sequences, FiniteSets, TLC

VARIABLES
    rules,          \* the rule list handed to buildIndex
    input,          \* the raw input string
    national,       \* normaliseToUkNational(input), or Null
    idx,            \* the index built by buildIndex(rules)
    matchedRules,   \* classifyUkNumber's local after the walk
    live,           \* classifyUkNumber's local after status filtering
    result,         \* the ClassificationResult returned
    pc,             \* position in classify(input, rules)
    prefixesJson,   \* the file prefixes.json: written by download.ts, read by server.ts
    srvPc,          \* server.ts: position in startServer
    srvRules,       \* server.ts: let rules
    srvIndex,       \* server.ts: let index (null until built)
    isReady,        \* server.ts: let isReady
    request,        \* server.ts: the request of the last handler run
    response,       \* server.ts: the response of the last handler run
    calls,          \* server.ts: the numbers that handler gave to classifyUkNumber
    dlPc,           \* download.ts: position in the main function
    args,           \* download.ts: process.argv.slice(2)
    noFetch,        \* download.ts: const noFetch
    cache,          \* download.ts: the CSV files in the data directory
    fetched,        \* download.ts: the files requested from the network
    fileIx,         \* download.ts: position of the loop over FILES
    dlRules         \* download.ts: const rules of the main function

classifyVars == <<rules, input, national, idx, matchedRules, live, result, pc>>
serverVars == <<srvPc, srvRules, srvIndex, isReady, request, response, calls>>
downloadVars == <<dlPc, args, noFetch, cache, fetched, fileIx, dlRules>>

vars == <<classifyVars, prefixesJson, serverVars, downloadVars>>

-----------------------------------------------------------------------------
(* Bounds of the model *)

MaxInputLen == 3
MaxTotalLength == 3
MaxRules == 2
MaxRawLen == 6

-----------------------------------------------------------------------------
(* Strings *)

DigitChars == {"0", "1", "2", "3", "4", "5", "6", "7", "8", "9"}

UpperCase == <<"A","B","C","D","E","F","G","H","I","J","K","L","M",
               "N","O","P","Q","R","S","T","U","V","W","X","Y","Z">>
LowerCase == <<"a","b","c","d","e","f","g","h","i","j","k","l","m",
               "n","o","p","q","r","s","t","u","v","w","x","y","z">>

\* one character, lower-cased (the regex's i flag)
LowerChar(c) ==
    IF \E i \in 1..Len(UpperCase) : UpperCase[i] = c
    THEN LowerCase[CHOOSE i \in 1..Len(UpperCase) : UpperCase[i] = c]
    ELSE c

ToLower(s) == [i \in 1..Len(s) |-> LowerChar(s[i])]

\* String.prototype.startsWith
StartsWith(s, p) ==
    /\ Len(p) <= Len(s)
    /\ SubSeq(s, 1, Len(p)) = p

\* String.prototype.slice(n)
Slice(s, n) == SubSeq(s, n + 1, Len(s))

\* an unanchored regex alternative: sub occurs somewhere in s
Contains(s, sub) ==
    \E i \in 0..(Len(s) - Len(sub)) : SubSeq(s, i + 1, i + Len(sub)) = sub

\* all strings over alphabet A of length 0..n
RECURSIVE StringsUpTo(_, _)
StringsUpTo(A, n) ==
    IF n = 0 THEN {<<>>}
    ELSE LET shorter == StringsUpTo(A, n - 1)
         IN  shorter \cup {Append(s, c) : s \in shorter, c \in A}

-----------------------------------------------------------------------------
(* Values of the code *)

NUMBER_VALID == "NUMBER_VALID"
NUMBER_INVALID == "NUMBER_INVALID"
NUMBER_TOO_SHORT == "NUMBER_TOO_SHORT"
NumberClass == {NUMBER_VALID, NUMBER_INVALID, NUMBER_TOO_SHORT}

\* a TypeError raised by reading a property of undefined
TypeError == "TypeError"

\* the null returned by normaliseToUkNational (no string: its one element
\* is not a character)
Null == <<"null">>

\* an absent provider (provider?: string); no string, like Null
NoProvider == <<"undefined">>

\* an undefined node is the empty option, a node n the option <<n>>
Undefined == <<>>
Some(n) == <<n>>

\* a trie node with no children and no rules ({ children: new Map() })
EmptyNode == [children |-> <<>>, rules |-> <<>>]

NoResult == [class |-> "none", provider |-> NoProvider]

-----------------------------------------------------------------------------
(* buildIndex *)

\* node.children.get(d) on a node that exists: the child, or undefined
GetChild(node, d) ==
    IF d \in DOMAIN node.children THEN Some(node.children[d]) ELSE Undefined

\* the inner loop of buildIndex with the rule put in front of the node's
\* rules (unshift for push)
RECURSIVE InsertRuleInFront(_, _, _)
InsertRuleInFront(node, prefix, r) ==
    IF prefix = <<>>
    THEN [node EXCEPT !.rules = <<r>> \o @]
    ELSE LET d == Head(prefix)
             child == IF d \in DOMAIN node.children
                      THEN node.children[d]
                      ELSE EmptyNode
             grown == InsertRuleInFront(child, Tail(prefix), r)
         IN  [node EXCEPT !.children =
                 [c \in (DOMAIN node.children) \cup {d} |->
                     IF c = d THEN grown ELSE node.children[c]]]

\* the inner loop of buildIndex for one rule: walk prefix from node,
\* creating the missing children, and push r at the node reached
RECURSIVE InsertRule(_, _, _)
InsertRule(node, prefix, r) ==
    IF prefix = <<>>
    THEN [node EXCEPT !.rules = Append(@, r)]
    ELSE LET d == Head(prefix)
             child == IF d \in DOMAIN node.children
                      THEN node.children[d]
                      ELSE EmptyNode
             grown == InsertRule(child, Tail(prefix), r)
         IN  [node EXCEPT !.children =
                 [c \in (DOMAIN node.children) \cup {d} |->
                     IF c = d THEN grown ELSE node.children[c]]]

\* the outer loop of buildIndex, from rule i on
RECURSIVE InsertFrom(_, _, _)
InsertFrom(root, rs, i) ==
    IF i > Len(rs) THEN root
    ELSE InsertFrom(InsertRule(root, rs[i].prefix, rs[i]), rs, i + 1)

buildIndex(rs) == InsertFrom(EmptyNode, rs, 1)

-----------------------------------------------------------------------------
(* normaliseToUkNational *)

\* input.replace(/\D+/g, "")
StripNonDigits(s) == SelectSeq(s, LAMBDA c : c \in DigitChars)

\* the leading zero added whatever the rest starts with
RestoreAlwaysPrepend(rest) ==
    IF rest = <<>> THEN Null ELSE <<"0">> \o rest

\* rest.startsWith("0") ? rest : "0" + rest, or null for an empty rest
RestoreLeadingZero(rest) ==
    IF rest = <<>> THEN Null
    ELSE IF StartsWith(rest, <<"0">>) THEN rest
    ELSE <<"0">> \o rest

\* the normaliser without the access codes that start with "1"
normaliseLeadingZeroOnly(in) ==
    LET digits == StripNonDigits(in)
    IN  IF digits = <<>> THEN Null
        ELSE IF StartsWith(digits, <<"0", "0", "4", "4">>)
             THEN RestoreLeadingZero(Slice(digits, 4))
        ELSE IF StartsWith(digits, <<"4", "4">>)
             THEN RestoreLeadingZero(Slice(digits, 2))
        ELSE IF ~StartsWith(digits, <<"0">>) THEN Null
        ELSE digits

normaliseToUkNational(in) ==
    LET digits == StripNonDigits(in)
    IN  IF digits = <<>> THEN Null
        ELSE IF StartsWith(digits, <<"0", "0", "4", "4">>)
             THEN RestoreLeadingZero(Slice(digits, 4))
        ELSE IF StartsWith(digits, <<"4", "4">>)
             THEN RestoreLeadingZero(Slice(digits, 2))
        ELSE IF StartsWith(digits, <<"1">>) THEN digits
        ELSE IF ~StartsWith(digits, <<"0">>) THEN Null
        ELSE digits

\* !national : null and the empty string are falsy
Falsy(n) == n = Null \/ n = <<>>

-----------------------------------------------------------------------------
(* classifyUkNumber *)

\* the loop condition without its node test
LoopGuardNoNode(nat, i, node) == i < Len(nat)

\* the walk's loop condition: i < national.length && node
LoopGuard(nat, i, node) == i < Len(nat) /\ node # Undefined

\* the walk: the loop over the digits of nat from position i (0-based),
\* with the current node (an option) and the rules matched so far.
\* Reading node.children of an undefined node raises a TypeError.
RECURSIVE WalkLoop(_, _, _, _)
WalkLoop(nat, i, node, matched) ==
    IF LoopGuard(nat, i, node)
    THEN IF node = Undefined
         THEN [thrown |-> TRUE, matched |-> matched]
         ELSE LET next == GetChild(node[1], nat[i + 1])
                  more == IF next # Undefined /\ Len(next[1].rules) > 0
                          THEN matched \o next[1].rules
                          ELSE matched
              IN  WalkLoop(nat, i + 1, next, more)
    ELSE [thrown |-> FALSE, matched |-> matched]

\* the status test with "free" unanchored: /unavailable|withdrawn|free/i
IsDeadStatusFreeAnywhere(status) ==
    LET s == ToLower(status)
    IN  \/ Contains(s, <<"u","n","a","v","a","i","l","a","b","l","e">>)
        \/ Contains(s, <<"w","i","t","h","d","r","a","w","n">>)
        \/ Contains(s, <<"f","r","e","e">>)

\* /unavailable|withdrawn|^free$/i.test(status)
IsDeadStatus(status) ==
    LET s == ToLower(status)
    IN  \/ Contains(s, <<"u","n","a","v","a","i","l","a","b","l","e">>)
        \/ Contains(s, <<"w","i","t","h","d","r","a","w","n">>)
        \/ s = <<"f","r","e","e">>

\* matchedRules.filter(r => !dead(r.status))
LiveRules(matched) == SelectSeq(matched, LAMBDA r : ~IsDeadStatus(r.status))

\* the last rule satisfying a test, as an option (findLast for find)
LastAt(rs, hits) ==
    IF hits = {} THEN Undefined
    ELSE Some(rs[CHOOSE i \in hits : \A j \in hits : i >= j])

\* Array.prototype.find over the positions of rs satisfying a test:
\* the first such rule as an option
FirstAt(rs, hits) ==
    IF hits = {} THEN Undefined
    ELSE Some(rs[CHOOSE i \in hits : \A j \in hits : i <= j])

ExactMatch(lv, nat) ==
    FirstAt(lv, {i \in 1..Len(lv) : lv[i].prefix = nat})
TooShortMatch(lv, len) ==
    FirstAt(lv, {i \in 1..Len(lv) : lv[i].totalLength > len})
\* a length match that tests the prefix's length, not totalLength
ValidMatchByPrefixLength(lv, len) ==
    FirstAt(lv, {i \in 1..Len(lv) : Len(lv[i].prefix) = len})
ValidMatch(lv, len) ==
    FirstAt(lv, {i \in 1..Len(lv) : lv[i].totalLength = len})

\* a descendant check that leaves out the rules of the node it starts at
RECURSIVE hasRuleBelow(_)
hasRuleBelow(node) ==
    IF node = Undefined THEN FALSE
    ELSE \E d \in DOMAIN node[1].children :
            \/ Len(node[1].children[d].rules) > 0
            \/ hasRuleBelow(Some(node[1].children[d]))

RECURSIVE hasDescendantRule(_)
hasDescendantRule(node) ==
    IF node = Undefined THEN FALSE
    ELSE IF Len(node[1].rules) > 0 THEN TRUE
    ELSE \E d \in DOMAIN node[1].children :
            hasDescendantRule(Some(node[1].children[d]))

\* the loop of existsRuleThatStartsWithDigits from position i (1-based)
RECURSIVE DescendFrom(_, _, _)
DescendFrom(digits, i, node) ==
    IF i > Len(digits) THEN hasDescendantRule(node)
    ELSE LET next == IF node = Undefined THEN Undefined
                     ELSE GetChild(node[1], digits[i])
         IN  IF next = Undefined THEN FALSE
             ELSE DescendFrom(digits, i + 1, next)

\* the loop of existsRuleThatStartsWithDigits, answering with the rules of
\* the node reached alone
RECURSIVE DescendToOwnRules(_, _, _)
DescendToOwnRules(digits, i, node) ==
    IF i > Len(digits) THEN node # Undefined /\ Len(node[1].rules) > 0
    ELSE LET next == IF node = Undefined THEN Undefined
                     ELSE GetChild(node[1], digits[i])
         IN  IF next = Undefined THEN FALSE
             ELSE DescendToOwnRules(digits, i + 1, next)

\* a descendant check that does not descend
existsRuleAtDigits(digits, index) ==
    DescendToOwnRules(digits, 1, Some(index))

existsRuleThatStartsWithDigits(digits, index) ==
    DescendFrom(digits, 1, Some(index))

\* the fallbacks without the descendant check
FallbackInvalidOnly(nat, index) ==
    [class |-> NUMBER_INVALID, provider |-> NoProvider]

\* the two fallbacks at the end of classifyUkNumber
Fallback(nat, index) ==
    IF existsRuleThatStartsWithDigits(nat, index)
    THEN [class |-> NUMBER_TOO_SHORT, provider |-> NoProvider]
    ELSE [class |-> NUMBER_INVALID, provider |-> NoProvider]

\* the decision with the too-short tier tried before the exact match
DecideTooShortFirst(nat, matched, index) ==
    LET len == Len(nat)
        lv == LiveRules(matched)
        exactMatch == ExactMatch(lv, nat)
        tooShortMatch == TooShortMatch(lv, len)
        validMatch == ValidMatch(lv, len)
    IN  IF Len(matched) > 0 /\ tooShortMatch # Undefined
        THEN [class |-> NUMBER_TOO_SHORT, provider |-> tooShortMatch[1].provider]
        ELSE IF Len(matched) > 0 /\ exactMatch # Undefined
        THEN [class |-> NUMBER_VALID, provider |-> exactMatch[1].provider]
        ELSE IF Len(matched) > 0 /\ validMatch # Undefined
        THEN [class |-> NUMBER_VALID, provider |-> validMatch[1].provider]
        ELSE Fallback(nat, index)

\* the decision with the length match tried before the too-short tier
DecideLengthFirst(nat, matched, index) ==
    LET len == Len(nat)
        lv == LiveRules(matched)
        exactMatch == ExactMatch(lv, nat)
        tooShortMatch == TooShortMatch(lv, len)
        validMatch == ValidMatch(lv, len)
    IN  IF Len(matched) > 0 /\ exactMatch # Undefined
        THEN [class |-> NUMBER_VALID, provider |-> exactMatch[1].provider]
        ELSE IF Len(matched) > 0 /\ validMatch # Undefined
        THEN [class |-> NUMBER_VALID, provider |-> validMatch[1].provider]
        ELSE IF Len(matched) > 0 /\ tooShortMatch # Undefined
        THEN [class |-> NUMBER_TOO_SHORT, provider |-> tooShortMatch[1].provider]
        ELSE Fallback(nat, index)

\* the decision taken on the first live rule alone
DecideFirstLiveOnly(nat, matched, index) ==
    LET len == Len(nat)
        lv == LiveRules(matched)
        first == IF lv = <<>> THEN <<>> ELSE <<lv[1]>>
        exactMatch == ExactMatch(first, nat)
        tooShortMatch == TooShortMatch(first, len)
        validMatch == ValidMatch(first, len)
    IN  IF Len(matched) > 0 /\ exactMatch # Undefined
        THEN [class |-> NUMBER_VALID, provider |-> exactMatch[1].provider]
        ELSE IF Len(matched) > 0 /\ tooShortMatch # Undefined
        THEN [class |-> NUMBER_TOO_SHORT, provider |-> tooShortMatch[1].provider]
        ELSE IF Len(matched) > 0 /\ validMatch # Undefined
        THEN [class |-> NUMBER_VALID, provider |-> validMatch[1].provider]
        ELSE Fallback(nat, index)

\* the decision on the matched rules: exact, too short, length, fallback
Decide(nat, matched, index) ==
    LET len == Len(nat)
        lv == LiveRules(matched)
        exactMatch == ExactMatch(lv, nat)
        tooShortMatch == TooShortMatch(lv, len)
        validMatch == ValidMatch(lv, len)
    IN  IF Len(matched) > 0 /\ exactMatch # Undefined
        THEN [class |-> NUMBER_VALID, provider |-> exactMatch[1].provider]
        ELSE IF Len(matched) > 0 /\ tooShortMatch # Undefined
        THEN [class |-> NUMBER_TOO_SHORT, provider |-> tooShortMatch[1].provider]
        ELSE IF Len(matched) > 0 /\ validMatch # Undefined
        THEN [class |-> NUMBER_VALID, provider |-> validMatch[1].provider]
        ELSE Fallback(nat, index)

\* classifyUkNumber without its first line, the test for an empty number
classifyTraceNoEmptyCheck(nat, index) ==
    LET w == WalkLoop(nat, 0, Some(index), <<>>)
    IN  IF w.thrown
        THEN [result |-> [class |-> TypeError, provider |-> NoProvider],
              matchedRules |-> w.matched, live |-> <<>>]
        ELSE [result |-> Decide(nat, w.matched, index),
              matchedRules |-> w.matched,
              live |-> LiveRules(w.matched)]

\* classifyUkNumber with its locals: the result, matchedRules and live
\* (live is computed only when some rule matched)
classifyTrace(nat, index) ==
    IF nat = <<>>
    THEN [result |-> [class |-> NUMBER_INVALID, provider |-> NoProvider],
          matchedRules |-> <<>>, live |-> <<>>]
    ELSE LET w == WalkLoop(nat, 0, Some(index), <<>>)
         IN  IF w.thrown
             THEN [result |-> [class |-> TypeError, provider |-> NoProvider],
                   matchedRules |-> w.matched, live |-> <<>>]
             ELSE [result |-> Decide(nat, w.matched, index),
                   matchedRules |-> w.matched,
                   live |-> LiveRules(w.matched)]

classifyUkNumber(nat, index) == classifyTrace(nat, index).result

-----------------------------------------------------------------------------
(* Inputs of the model *)

Allocated == <<"A","l","l","o","c","a","t","e","d">>
Free == <<"F","r","e","e">>
AllocatedClosedRange ==
    <<"A","l","l","o","c","a","t","e","d","(","C","l","o","s","e","d"," ","R","a","n","g","e",")">>
Protected ==
    <<"P","r","o","t","e","c","t","e","d">>
Reserved ==
    <<"R","e","s","e","r","v","e","d">>
Quarantined ==
    <<"Q","u","a","r","a","n","t","i","n","e","d">>
Designated ==
    <<"D","e","s","i","g","n","a","t","e","d">>
FreeForAllocation ==
    <<"F","r","e","e"," ","f","o","r"," ","a","l","l","o","c","a","t","i","o","n">>
Freephone ==
    <<"F","r","e","e","p","h","o","n","e">>
FreeUpper ==
    <<"F","R","E","E">>
FreeLower ==
    <<"f","r","e","e">>
Unavailable ==
    <<"U","n","a","v","a","i","l","a","b","l","e">>
UnavailableForAllocation ==
    <<"u","n","a","v","a","i","l","a","b","l","e"," ","f","o","r"," ","a","l","l","o","c","a","t","i","o","n">>
Withdrawn ==
    <<"W","i","t","h","d","r","a","w","n">>
WithdrawnUpper ==
    <<"W","I","T","H","D","R","A","W","N">>
RangeWithdrawn ==
    <<"R","a","n","g","e"," ","W","i","t","h","d","r","a","w","n"," ","2","0","1","9">>
NoStatus == <<>>

\* the digits the modelled numbers and prefixes are written with
NumberDigits == {"0", "1"}

\* numbers as typed, plus raw inputs the normaliser rejects or rewrites
OddInputs ==
    { <<" ">>, <<" ", " ">>, <<"+">>, <<"x", "-">>, <<"7">>, <<"4", "4">>,
      <<"0", "0", "4", "4">>, <<"+", "4", "4", "1">>, <<"0", " ", "1">>,
      <<"4", "4", "0", "1">>, <<"0", "0", "4", "4", "1", "0">> }

Inputs == StringsUpTo(NumberDigits, MaxInputLen) \cup OddInputs

Prefixes == {<<"0">>, <<"0", "1">>}
Statuses == {Allocated, Free}

DecimalDigits == <<"0", "1", "2", "3", "4", "5", "6", "7", "8", "9">>

\* n < 100 written in decimal
Decimal(n) ==
    IF n < 10 THEN <<DecimalDigits[n + 1]>>
    ELSE <<DecimalDigits[(n \div 10) + 1], DecimalDigits[(n % 10) + 1]>>

\* every modelled rule carries a CP Name of its own, so that a result's
\* provider tells which rule it was taken from
ProviderOf(p, n, s) == p \o <<"/">> \o Decimal(n) \o <<"/">> \o s

Rule(p, n, s) ==
    [prefix |-> p, totalLength |-> n, status |-> s,
     provider |-> ProviderOf(p, n, s)]

\* the rules over some prefixes and statuses; the loaded rules satisfy
\* totalLength >= len(prefix)
RulesOver(prefixes, statuses) ==
    { r \in { Rule(p, n, s) : p \in prefixes, s \in statuses,
                              n \in 1..MaxTotalLength } :
        r.totalLength >= Len(r.prefix) }

RECURSIVE ListsUpTo(_, _)
ListsUpTo(universe, n) ==
    IF n = 0 THEN {<<>>}
    ELSE LET shorter == ListsUpTo(universe, n - 1)
         IN  shorter \cup {Append(l, r) : l \in shorter, r \in universe}

RuleUniverse == RulesOver(Prefixes, Statuses)
RuleLists == ListsUpTo(RuleUniverse, MaxRules)

-----------------------------------------------------------------------------
(* classify(input, rules) of run-tests.ts, one action per call it makes *)

\* no prefixes.json in the working directory
NoFile == [present |-> FALSE, parses |-> FALSE, rules |-> <<>>]

\* server.ts not started: its globals as declared
ServerIdle ==
    /\ srvPc = "idle"
    /\ srvRules = <<>>
    /\ srvIndex = Undefined
    /\ isReady = FALSE
    /\ request = [endpoint |-> "none"]
    /\ response = [status |-> 0]
    /\ calls = <<>>

\* download.ts not started
DownloadIdle ==
    /\ dlPc = "idle"
    /\ args = <<>>
    /\ noFetch = FALSE
    /\ cache = <<>>
    /\ fetched = {}
    /\ fileIx = 0
    /\ dlRules = <<>>

\* classify(input, rules) of run-tests.ts not called
ClassifyIdle ==
    /\ input = <<>>
    /\ rules = <<>>
    /\ national = Null
    /\ idx = EmptyNode
    /\ matchedRules = <<>>
    /\ live = <<>>
    /\ result = NoResult
    /\ pc = "idle"

InitWith(inputs, ruleLists) ==
    /\ input \in inputs
    /\ rules \in ruleLists
    /\ national = Null
    /\ idx = EmptyNode
    /\ matchedRules = <<>>
    /\ live = <<>>
    /\ result = NoResult
    /\ pc = "start"
    /\ prefixesJson = NoFile
    /\ ServerIdle
    /\ DownloadIdle

\* const national = normaliseToUkNational(input)
Normalise ==
    /\ pc = "start"
    /\ national' = normaliseToUkNational(input)
    /\ pc' = "normalised"
    /\ UNCHANGED <<rules, input, idx, matchedRules, live, result>>
    /\ UNCHANGED <<prefixesJson, serverVars, downloadVars>>

\* if (!national) return { class: NUMBER_INVALID }
RejectNull ==
    /\ pc = "normalised"
    /\ Falsy(national)
    /\ result' = [class |-> NUMBER_INVALID, provider |-> NoProvider]
    /\ pc' = "done"
    /\ UNCHANGED <<rules, input, national, idx, matchedRules, live>>
    /\ UNCHANGED <<prefixesJson, serverVars, downloadVars>>

\* const idx = buildIndex(rules)
BuildIndex ==
    /\ pc = "normalised"
    /\ ~Falsy(national)
    /\ idx' = buildIndex(rules)
    /\ pc' = "indexed"
    /\ UNCHANGED <<rules, input, national, matchedRules, live, result>>
    /\ UNCHANGED <<prefixesJson, serverVars, downloadVars>>

\* return classifyUkNumber(national, idx)
Classify ==
    /\ pc = "indexed"
    /\ LET t == classifyTrace(national, idx)
       IN  /\ result' = t.result
           /\ matchedRules' = t.matchedRules
           /\ live' = t.live
    /\ pc' = "done"
    /\ UNCHANGED <<rules, input, national, idx>>
    /\ UNCHANGED <<prefixesJson, serverVars, downloadVars>>

Next == Normalise \/ RejectNull \/ BuildIndex \/ Classify

Init == InitWith(Inputs, RuleLists)
Spec == Init /\ [][Next]_vars

\* the normaliser on raw inputs: digits, and "+" for the non-digits
RawChars == {"0", "1", "4", "+"}
RawInputs == StringsUpTo(RawChars, MaxRawLen)
NormRuleLists == {<<>>, <<Rule(<<"0", "1">>, MaxTotalLength, Allocated)>>}

InitNorm == InitWith(RawInputs, NormRuleLists)
SpecNorm == InitNorm /\ [][Next]_vars

\* the status filter on the statuses of the Ofcom sheets and their variants
SheetStatuses ==
    { Allocated, AllocatedClosedRange, Protected, Reserved, Quarantined,
      Designated, FreeForAllocation, Freephone, NoStatus,
      Free, FreeUpper, FreeLower, Unavailable, UnavailableForAllocation,
      Withdrawn, WithdrawnUpper, RangeWithdrawn }
StatusRules == RulesOver({<<"0">>}, SheetStatuses)
StatusRuleLists ==
    {<<r>> : r \in StatusRules}
        \cup {<<r, q>> : r \in StatusRules, q \in RuleUniverse}
        \cup {<<q, r>> : r \in StatusRules, q \in RuleUniverse}

InitStatus == InitWith(StringsUpTo(NumberDigits, MaxInputLen), StatusRuleLists)
SpecStatus == InitStatus /\ [][Next]_vars

\* the freephone range of the README's note: 0800, 11 digits, free for
\* allocation
FreephoneLength == 11
FreephonePrefix == <<"0", "8", "0", "0">>
FreephoneRule == Rule(FreephonePrefix, FreephoneLength, FreeForAllocation)
FreephoneInputs ==
    { FreephonePrefix \o t :
        t \in StringsUpTo(NumberDigits, FreephoneLength - Len(FreephonePrefix)) }
    \cup { <<>>, <<"+", "4", "4">>,
           <<"+", "4", "4", "8", "0", "0", "1", "1", "1", "0", "0", "0", "0">> }
FreephoneRuleLists ==
    { <<FreephoneRule>>,
      <<FreephoneRule, Rule(FreephonePrefix, FreephoneLength, Free)>>,
      <<Rule(<<"0", "8">>, FreephoneLength, Withdrawn), FreephoneRule>> }

InitFreephone == InitWith(FreephoneInputs, FreephoneRuleLists)
SpecFreephone == InitFreephone /\ [][Next]_vars

-----------------------------------------------------------------------------
(* Vocabulary of the properties, stated on the rule list itself *)

\* the classifier has returned for a canonical number
Classified == pc = "done" /\ ~Falsy(national)

\* positions of the live rules whose prefix is an initial substring of d
\* (the live rules the walk over d collects)
LiveMatching(d) ==
    { i \in 1..Len(rules) :
        /\ rules[i].prefix # <<>>
        /\ StartsWith(d, rules[i].prefix)
        /\ ~IsDeadStatus(rules[i].status) }

LiveExact(d) == {i \in LiveMatching(d) : rules[i].prefix = d}
LiveLonger(d) == {i \in LiveMatching(d) : rules[i].totalLength > Len(d)}
LiveSameLength(d) == {i \in LiveMatching(d) : rules[i].totalLength = Len(d)}

\* some rule, live or dead, ends at d or below it
RuleAtOrBelow(d) ==
    \E i \in 1..Len(rules) : StartsWith(rules[i].prefix, d)

\* a live rule's prefix is d followed by one or more digits
LiveRuleBelow(d) ==
    \E i \in 1..Len(rules) :
        /\ StartsWith(rules[i].prefix, d)
        /\ rules[i].prefix # d
        /\ ~IsDeadStatus(rules[i].status)

\* d followed by one or more digits, up to MaxTotalLength of them; "7" is a
\* digit no modelled prefix holds
ExtensionDigits == NumberDigits \cup {"7"}
Extensions(d) ==
    {d \o t : t \in StringsUpTo(ExtensionDigits, MaxTotalLength) \ {<<>>}}

SomeExtensionValid(d) ==
    \E e \in Extensions(d) : classifyUkNumber(e, idx).class = NUMBER_VALID

-----------------------------------------------------------------------------
(* Properties *)

\* C1 (totality): for every input and every rule list, normalising the
\* input and classifying the result (the empty string for null) against the
\* built index evaluates to one of the three classes and raises nothing;
\* and whatever classify(input, rules) returns is one of the three classes.
C1_Totality ==
    /\ pc = "start" =>
          LET n == normaliseToUkNational(input)
          IN  classifyUkNumber(IF n = Null THEN <<>> ELSE n,
                               buildIndex(rules)).class \in NumberClass
    /\ pc = "done" => result.class \in NumberClass

\* C1 witness: the walk has left the trie before the end of the number
\* (index of one rule, number with a digit the trie lacks) and returned.
C1_Witness ==
    /\ pc = "done"
    /\ input = <<"0", " ", "1">>
    /\ Len(rules) = 1 /\ rules[1].prefix = <<"0">>
    /\ matchedRules # <<>>
    /\ result.class \in NumberClass

\* C2 (exact-match precedence): when a live rule's prefix equals the whole
\* canonical number the result is NUMBER_VALID with the provider of such a
\* rule, whatever the totalLength of the other live matched rules.
C2_ExactMatchPrecedence ==
    (Classified /\ LiveExact(national) # {}) =>
        /\ result.class = NUMBER_VALID
        /\ \E i \in LiveExact(national) : result.provider = rules[i].provider

\* C2 witness: an exact live rule together with a live matched rule whose
\* totalLength exceeds the number's length.
C2_Witness ==
    /\ Classified
    /\ LiveExact(national) # {}
    /\ \E j \in LiveLonger(national) : rules[j].prefix # national
    /\ result.class = NUMBER_VALID

\* C3 (too short beats length match): with no live exact rule, a live
\* matched rule longer than the number gives NUMBER_TOO_SHORT even when
\* another live matched rule has exactly the number's length; and
\* NUMBER_VALID without an exact rule means a live rule of that length and
\* no longer live rule.
C3_TooShortBeatsLength ==
    Classified =>
        /\ (LiveExact(national) = {} /\ LiveLonger(national) # {})
              => result.class = NUMBER_TOO_SHORT
        /\ (result.class = NUMBER_VALID /\ LiveExact(national) = {})
              => (LiveLonger(national) = {} /\ LiveSameLength(national) # {})

\* C3 witness: no exact rule, one live rule longer and one of the same
\* length, answered NUMBER_TOO_SHORT.
C3_Witness ==
    /\ Classified
    /\ LiveExact(national) = {}
    /\ LiveLonger(national) # {}
    /\ LiveSameLength(national) # {}
    /\ result.class = NUMBER_TOO_SHORT

\* C4 (dead-status predicate): the statuses the claim's words make dead,
\* among the statuses of the model: "free" as the whole string in any
\* case, and any status containing "unavailable" or "withdrawn".
ClaimedDead ==
    { Free, FreeUpper, FreeLower, Unavailable, UnavailableForAllocation,
      Withdrawn, WithdrawnUpper, RangeWithdrawn }

\* C4: the live rules are the matched rules whose status is not one of the
\* claimed dead ones (Allocated, Allocated(Closed Range), Protected,
\* Reserved, Quarantined, Designated, Free for allocation, Freephone and
\* the empty status stay live); a lone rule whose prefix is the number
\* gives NUMBER_VALID exactly when its status is live.
C4_DeadStatusPredicate ==
    Classified =>
        /\ live = SelectSeq(matchedRules, LAMBDA r : r.status \notin ClaimedDead)
        /\ (Len(rules) = 1 /\ rules[1].prefix = national) =>
              (result.class = NUMBER_VALID <=> rules[1].status \notin ClaimedDead)

\* C4 witness: a rule "Free for allocation" kept live beside a rule
\* "Free" filtered out.
C4_Witness ==
    /\ Classified
    /\ \E i \in 1..Len(matchedRules) : matchedRules[i].status = Free
    /\ \E i \in 1..Len(live) : live[i].status = FreeForAllocation
    /\ \A i \in 1..Len(live) : live[i].status # Free

\* C5 as stated (status exclusion): with the rule {0800, 11, Free for
\* allocation} in the index and no live alternative, an 11-digit number
\* starting 0800 is never NUMBER_VALID: it is NUMBER_INVALID.
C5_FreeForAllocationExcluded ==
    (/\ Classified
     /\ \E i \in 1..Len(rules) : rules[i] = FreephoneRule
     /\ \A i \in 1..Len(rules) :
           rules[i] = FreephoneRule \/ rules[i].status \in ClaimedDead
     /\ Len(national) = FreephoneLength
     /\ StartsWith(national, FreephonePrefix)) =>
        result.class = NUMBER_INVALID

\* C6 (fallback): when no live matched rule gives an exact, too-short or
\* length match, the result is NUMBER_TOO_SHORT without provider if some
\* rule, live or dead, ends at the number or below it, and NUMBER_INVALID
\* without provider otherwise.
C6_Fallback ==
    (/\ Classified
     /\ LiveExact(national) = {}
     /\ LiveLonger(national) = {}
     /\ LiveSameLength(national) = {}) =>
        result = IF RuleAtOrBelow(national)
                 THEN [class |-> NUMBER_TOO_SHORT, provider |-> NoProvider]
                 ELSE [class |-> NUMBER_INVALID, provider |-> NoProvider]

\* C6 witness: the fallback answers NUMBER_TOO_SHORT on a subtree that
\* holds dead rules only, after the walk matched a rule.
C6_Witness ==
    /\ Classified
    /\ LiveExact(national) = {}
    /\ LiveLonger(national) = {}
    /\ LiveSameLength(national) = {}
    /\ matchedRules # <<>>
    /\ \A i \in 1..Len(rules) : IsDeadStatus(rules[i].status)
    /\ result.class = NUMBER_TOO_SHORT

\* C7 as stated (monotonic prefix property): every NUMBER_TOO_SHORT number
\* has an extension classified NUMBER_VALID.
C7_EveryTooShortExtends ==
    (Classified /\ result.class = NUMBER_TOO_SHORT) =>
        SomeExtensionValid(national)

\* C7 amended: a NUMBER_TOO_SHORT number has an extension classified
\* NUMBER_VALID when a live matched rule is longer than the number or a
\* live rule's prefix extends the number.
C7_TooShortByLiveRuleExtends ==
    (/\ Classified
     /\ result.class = NUMBER_TOO_SHORT
     /\ (LiveLonger(national) # {} \/ LiveRuleBelow(national))) =>
        SomeExtensionValid(national)

\* C7 witness: NUMBER_TOO_SHORT by a longer live rule, with no live rule
\* below the number, so that the valid extension is one by length.
C7_Witness ==
    /\ Classified
    /\ result.class = NUMBER_TOO_SHORT
    /\ LiveLonger(national) # {}
    /\ ~LiveRuleBelow(national)
    /\ SomeExtensionValid(national)

\* C8 as stated (idempotence): normalising a canonical number returns it.
C8_NormaliseIdempotent ==
    (pc # "start" /\ national # Null) =>
        normaliseToUkNational(national) = national

\* the claim's rule for the remainder of an international form
ClaimedRemainder(rest) ==
    IF rest = <<>> THEN Null
    ELSE IF rest[1] = "0" THEN rest
    ELSE <<"0">> \o rest

ClaimedDigits(in) == SelectSeq(in, LAMBDA c : c \in DigitChars)

\* the international prefix is stripped as the claim says
InternationalStripped ==
    LET digits == ClaimedDigits(input)
    IN  /\ StartsWith(digits, <<"0", "0", "4", "4">>) =>
              national = ClaimedRemainder(SubSeq(digits, 5, Len(digits)))
        /\ (/\ ~StartsWith(digits, <<"0", "0", "4", "4">>)
            /\ StartsWith(digits, <<"4", "4">>)) =>
              national = ClaimedRemainder(SubSeq(digits, 3, Len(digits)))

\* the input is "+44" or "0044" followed by the digits m
InternationalFormOf(m) ==
    /\ m = ClaimedDigits(m)
    /\ \/ input = <<"+", "4", "4">> \o m
       \/ input = <<"0", "0", "4", "4">> \o m

\* what follows "+44" or "0044" in the input
AfterInternational ==
    IF StartsWith(input, <<"+", "4", "4">>) THEN SubSeq(input, 4, Len(input))
    ELSE IF StartsWith(input, <<"0", "0", "4", "4">>)
         THEN SubSeq(input, 5, Len(input))
    ELSE <<"+">>

\* C9 as stated (international forms): the prefix is stripped, and for
\* every national number n starting with "0", "+44" and "0044" followed by
\* n without its first digit normalise to n.
C9_InternationalAnyNational ==
    pc # "start" =>
        /\ InternationalStripped
        /\ InternationalFormOf(AfterInternational) =>
              national = <<"0">> \o AfterInternational

\* C9 amended: the same for the national numbers n of two digits or more
\* whose second digit is not "0".
C9_InternationalForms ==
    pc # "start" =>
        /\ InternationalStripped
        /\ (/\ InternationalFormOf(AfterInternational)
            /\ AfterInternational # <<>>
            /\ AfterInternational[1] # "0") =>
              national = <<"0">> \o AfterInternational

\* C9 witness: 0044 followed by 10 normalises to 010.
C9_Witness ==
    /\ pc # "start"
    /\ input = <<"0", "0", "4", "4", "1", "0">>
    /\ national = <<"0", "1", "0">>

\* C10 (national forms): the non-digits are removed; no digit gives null;
\* digits that start with neither 0044 nor 44 are returned unchanged when
\* they start with 1 or 0 and give null otherwise; a result that is not
\* null is a non-empty digit string starting with 0 or 1.
C10_NationalForms ==
    pc # "start" =>
        LET digits == ClaimedDigits(input)
        IN  /\ digits = <<>> => national = Null
            /\ (/\ digits # <<>>
                /\ ~StartsWith(digits, <<"0", "0", "4", "4">>)
                /\ ~StartsWith(digits, <<"4", "4">>)) =>
                  national = IF digits[1] \in {"0", "1"} THEN digits ELSE Null
            /\ national # Null =>
                  /\ national # <<>>
                  /\ \A i \in 1..Len(national) : national[i] \in DigitChars
                  /\ national[1] \in {"0", "1"}

\* C10 witness: an access code typed with non-digits around it.
C10_Witness ==
    /\ pc # "start"
    /\ input = <<"+", "1", "+", "4", "0">>
    /\ national = <<"1", "4", "0">>


\* the rules of the list whose prefix is p, in input order
RulesWithPrefix(p) == SelectSeq(rules, LAMBDA r : r.prefix = p)

\* the rules whose prefix is one of the first k initial substrings of d,
\* shorter prefix first
RECURSIVE TraversalUpTo(_, _)
TraversalUpTo(d, k) ==
    IF k = 0 THEN <<>>
    ELSE TraversalUpTo(d, k - 1) \o RulesWithPrefix(SubSeq(d, 1, k))

Traversal(d) == TraversalUpTo(d, Len(d))

\* C11 (trie invariant): the rules the walk over the built index collects
\* for a number are exactly the rules of the list whose prefix is an
\* initial substring of the number, shorter prefix first and in input
\* order within one prefix.
C11_TrieInvariant ==
    Classified => matchedRules = Traversal(national)

\* C11 witness: two different rules under one prefix and the walk has
\* collected both.
C11_Witness ==
    /\ Classified
    /\ Len(rules) = 2
    /\ rules[1].prefix = rules[2].prefix
    /\ rules[1] # rules[2]
    /\ matchedRules = rules


-----------------------------------------------------------------------------
(* Rule order *)

\* the digit strings classified against reordered rule lists: those that
\* start as the modelled prefixes do, and the empty input, which is
\* rejected before the index is built
OrderInputs ==
    { d \in StringsUpTo(NumberDigits, MaxInputLen) :
        d = <<>> \/ StartsWith(d, <<"0">>) }

\* the rule lists that are reordered: rules of the two longest lengths
OrderRules == { r \in RuleUniverse : r.totalLength >= MaxTotalLength - 1 }
OrderRuleLists == ListsUpTo(OrderRules, MaxRules)

InitOrder == InitWith(OrderInputs, OrderRuleLists)
SpecOrder == InitOrder /\ [][Next]_vars

\* the rule lists that are rs in another order
Reorderings(rs) ==
    { [i \in 1..Len(rs) |-> rs[p[i]]] : p \in Permutations(1..Len(rs)) }

\* the rule lists that are rs with one of its rules repeated, at the end
\* or at the front
Repeats(rs) ==
    { Append(rs, rs[i]) : i \in 1..Len(rs) }
        \cup { <<rs[i]>> \o rs : i \in 1..Len(rs) }

SameRuleSet(rs) == Reorderings(rs) \cup Repeats(rs)

\* C12 (order-insensitive construction): the class returned for a number
\* is the same over the index of the rule list, of every reordering of it
\* and of the list with a rule repeated.
C12_OrderInsensitiveClass ==
    Classified =>
        \A other \in SameRuleSet(rules) :
            classifyUkNumber(national, buildIndex(other)).class = result.class

\* C12 witness: a reordering of the rule list that changes the provider
\* reported for the number and leaves the class alone.
C12_Witness ==
    /\ Classified
    /\ \E other \in Reorderings(rules) :
          LET r == classifyUkNumber(national, buildIndex(other))
          IN  r.class = result.class /\ r.provider # result.provider


-----------------------------------------------------------------------------
(* Provider *)

\* rule i comes before rule j in traversal order: shorter prefix first,
\* then order of appearance in the rule list
Precedes(i, j) ==
    \/ Len(rules[i].prefix) < Len(rules[j].prefix)
    \/ Len(rules[i].prefix) = Len(rules[j].prefix) /\ i < j

FirstInTraversal(S) ==
    CHOOSE i \in S : \A j \in S \ {i} : Precedes(i, j)

\* the live rules of the tier that decides the class of d: the exact
\* matches, else the longer rules, else the rules of d's length
DecidingTier(d) ==
    IF LiveExact(d) # {} THEN LiveExact(d)
    ELSE IF LiveLonger(d) # {} THEN LiveLonger(d)
    ELSE LiveSameLength(d)

\* C13 (provider tie-break): the provider of a result decided by a tier is
\* that of the first live rule of the tier in traversal order; a result of
\* the fallbacks carries no provider.
C13_ProviderTieBreak ==
    Classified =>
        IF DecidingTier(national) # {}
        THEN result.provider =
                 rules[FirstInTraversal(DecidingTier(national))].provider
        ELSE result.provider = NoProvider

\* C13 witness: two live rules in the deciding tier, the later of the rule
\* list with the shorter prefix, and its provider reported.
C13_Witness ==
    /\ Classified
    /\ Len(rules) = 2
    /\ DecidingTier(national) = {1, 2}
    /\ Len(rules[2].prefix) < Len(rules[1].prefix)
    /\ result.provider = rules[2].provider


-----------------------------------------------------------------------------
(* Fail closed *)

\* C14 (fail closed): over any built index the classifier answers
\* NUMBER_INVALID, with no provider, for the empty number; over the index
\* of an empty rule list it answers NUMBER_INVALID for every number.
C14_FailClosed ==
    /\ pc = "indexed" =>
          classifyUkNumber(<<>>, idx) =
              [class |-> NUMBER_INVALID, provider |-> NoProvider]
    /\ (Classified /\ rules = <<>>) =>
          result = [class |-> NUMBER_INVALID, provider |-> NoProvider]

\* C14 witness: an index that holds rules, over which the empty number is
\* NUMBER_INVALID.
C14_Witness ==
    /\ pc = "indexed"
    /\ hasDescendantRule(Some(idx))
    /\ classifyUkNumber(<<>>, idx).class = NUMBER_INVALID

\* the other case of C14: a number classified over the empty index
C14_EmptyIndexReached ==
    /\ Classified
    /\ rules = <<>>
    /\ idx = EmptyNode
    /\ result.class = NUMBER_INVALID


-----------------------------------------------------------------------------
(* server.ts: the values of requests and responses *)

\* the most numbers one batch request may hold
BatchCap == 100

\* a JSON number among the items of a batch (no string: its one element is
\* not a character)
JsonNumber == <<"123">>

\* a rule object read from prefixes.json without its prefix field
NoPrefix == <<"no prefix">>
NoPrefixRule ==
    [prefix |-> NoPrefix, totalLength |-> MaxTotalLength,
     status |-> Allocated, provider |-> NoProvider]

\* result.provider ? ... : ... (undefined, null and "" are falsy)
Truthy(s) == s # NoProvider /\ s # Null /\ s # <<>>

\* the message as the pieces of its template literal
getResultMessage(res) ==
    CASE res.class = NUMBER_VALID ->
            IF Truthy(res.provider)
            THEN <<"Valid UK number (", res.provider, ")">>
            ELSE <<"Valid UK number">>
      [] res.class = NUMBER_TOO_SHORT ->
            IF Truthy(res.provider)
            THEN <<"Number too short (", res.provider, ")">>
            ELSE <<"Number too short">>
      [] res.class = NUMBER_INVALID -> <<"Invalid UK number">>
      [] OTHER -> <<"Unknown validation result">>

ServiceNotReady ==
    [status |-> 503,
     body |-> [error |-> "Service not ready",
               message |-> "Validator is still initializing"]]

InvalidRequest ==
    [status |-> 400, body |-> [error |-> "Invalid request"]]

RequestTooLarge ==
    [status |-> 400,
     body |-> [error |-> "Request too large",
               message |-> "Maximum 100 numbers per batch request"]]

ValidationFailed ==
    [status |-> 500, body |-> [error |-> "Validation failed"]]

BatchValidationFailed ==
    [status |-> 500, body |-> [error |-> "Batch validation failed"]]

\* the body both handlers build when normaliseToUkNational returns null
InvalidFormat(number) ==
    [number |-> number,
     national |-> Null,
     result |-> [class |-> NUMBER_INVALID, provider |-> Null],
     message |-> <<"Invalid number format">>]


-----------------------------------------------------------------------------
(* server.ts: the handlers, as functions of the request and the globals *)

\* the node the digits of path lead to from node, as an option
RECURSIVE NodeAt(_, _)
NodeAt(node, path) ==
    IF path = <<>> THEN Some(node)
    ELSE IF Head(path) \in DOMAIN node.children
         THEN NodeAt(node.children[Head(path)], Tail(path))
         ELSE Undefined

\* node with the rules of the node at path replaced by rs
RECURSIVE SetRulesAt(_, _, _)
SetRulesAt(node, path, rs) ==
    IF path = <<>> THEN [node EXCEPT !.rules = rs]
    ELSE [node EXCEPT !.children[Head(path)] =
             SetRulesAt(@, Tail(path), rs)]

\* the index after a walk whose matchedRules is the rules array of the
\* first matching node itself, so that the later pushes land in the index
IndexAfterAliasedPush(nat, root) ==
    LET hits == { k \in 1..Len(nat) :
                    LET n == NodeAt(root, SubSeq(nat, 1, k))
                    IN  n # Undefined /\ Len(n[1].rules) > 0 }
    IN  IF hits = {} THEN root
        ELSE LET k == CHOOSE h \in hits : \A j \in hits : h <= j
             IN  SetRulesAt(root, SubSeq(nat, 1, k),
                            WalkLoop(nat, 0, Some(root), <<>>).matched)

\* the index after classifyUkNumber(nat, index): the function reads nodes,
\* child maps and rule arrays, and pushes and filters into arrays of its own
IndexAfterClassify(nat, root) == root

\* what a handler's call classifyUkNumber(nat, index) leaves: r is the
\* value returned over the root of the index
AfterClassify(nat, root, r) ==
    [thrown |-> r.class = TypeError,
     result |-> r,
     index |-> Some(IndexAfterClassify(nat, root))]

\* the call classifyUkNumber(national, index) of a handler; reading
\* index.root of a null index raises a TypeError
ClassifyCall(nat, ixOpt) ==
    IF ixOpt = Undefined
    THEN [thrown |-> TRUE,
          result |-> [class |-> TypeError, provider |-> NoProvider],
          index |-> ixOpt]
    ELSE AfterClassify(nat, ixOpt[1], classifyUkNumber(nat, ixOpt[1]))

\* a readiness test that lets every request through
NeverGated(ready) == FALSE

\* if (!isReady)
NotReady(ready) == ~ready

\* the object a handler builds from the classifier's result
ResultBody(number, nat, res) ==
    [number |-> number,
     national |-> nat,
     result |-> res,
     message |-> getResultMessage(res)]

\* GET /validate after the call c of the classifier on nat: the catch
\* block's response on a throw, the result's body otherwise
ValidateClassified(number, nat, c) ==
    [response |-> IF c.thrown THEN ValidationFailed
                  ELSE [status |-> 200,
                        body |-> ResultBody(number, nat, c.result)],
     calls |-> <<nat>>,
     index |-> c.index]

\* GET /validate after const national = normaliseToUkNational(number)
ValidateNational(number, nat, ixOpt) ==
    IF Falsy(nat)
    THEN [response |-> [status |-> 200, body |-> InvalidFormat(number)],
          calls |-> <<>>,
          index |-> ixOpt]
    ELSE ValidateClassified(number, nat, ClassifyCall(nat, ixOpt))

\* the try block of GET /validate for the query string number: the
\* response, the numbers given to the classifier and the index afterwards
ValidateBody(number, ixOpt) ==
    ValidateNational(number, normaliseToUkNational(number), ixOpt)

\* app.get('/validate'): q is req.query.number
GetValidate(q, ready, ixOpt) ==
    IF NotReady(ready)
    THEN [response |-> ServiceNotReady, calls |-> <<>>, index |-> ixOpt]
    ELSE IF q.type # "string" \/ q.value = <<>>
    THEN [response |-> InvalidRequest, calls |-> <<>>, index |-> ixOpt]
    ELSE ValidateBody(q.value, ixOpt)

\* the map callback after the call c of the classifier on given
BatchClassified(number, nat, given, c) ==
    [thrown |-> c.thrown,
     results |-> <<ResultBody(number, nat, c.result)>>,
     calls |-> <<given>>,
     index |-> c.index]

\* the map callback with the number as received, not the national form,
\* given to the classifier
BatchNationalRaw(number, nat, ixOpt) ==
    IF Falsy(nat)
    THEN [thrown |-> FALSE,
          results |-> <<InvalidFormat(number)>>,
          calls |-> <<>>,
          index |-> ixOpt]
    ELSE BatchClassified(number, nat, number, ClassifyCall(number, ixOpt))

\* the map callback after const national = normaliseToUkNational(number)
BatchNational(number, nat, ixOpt) ==
    IF Falsy(nat)
    THEN [thrown |-> FALSE,
          results |-> <<InvalidFormat(number)>>,
          calls |-> <<>>,
          index |-> ixOpt]
    ELSE BatchClassified(number, nat, nat, ClassifyCall(nat, ixOpt))

\* the callback of numbers.map for one item; an item that is a JSON number
\* has no replace method and normaliseToUkNational raises a TypeError
BatchEntry(number, ixOpt) ==
    IF number = JsonNumber
    THEN [thrown |-> TRUE, results |-> <<>>, calls |-> <<>>, index |-> ixOpt]
    ELSE BatchNational(number, normaliseToUkNational(number), ixOpt)

\* the results of two consecutive parts of the map, put together
BatchJoin(first, rest) ==
    [thrown |-> rest.thrown,
     results |-> first.results \o rest.results,
     calls |-> first.calls \o rest.calls,
     index |-> rest.index]

\* numbers.map over the items lo..hi, in order: the results, the numbers
\* given to the classifier and the index afterwards; a throw ends the map.
\* The range is halved so that the evaluation stays shallow.
RECURSIVE BatchMap(_, _, _, _)
RECURSIVE BatchThen(_, _, _, _)
BatchMap(numbers, lo, hi, ixOpt) ==
    IF lo > hi
    THEN [thrown |-> FALSE, results |-> <<>>, calls |-> <<>>,
          index |-> ixOpt]
    ELSE IF lo = hi
    THEN BatchEntry(numbers[lo], ixOpt)
    ELSE BatchThen(numbers, ((lo + hi) \div 2) + 1, hi,
                   BatchMap(numbers, lo, (lo + hi) \div 2, ixOpt))

\* the map over the items lo..hi after the part that gave first
BatchThen(numbers, lo, hi, first) ==
    IF first.thrown THEN first
    ELSE BatchJoin(first, BatchMap(numbers, lo, hi, first.index))

\* a size test that turns away a batch of BatchCap numbers too
OverCapFromCap(n) == n >= BatchCap

\* numbers.length > 100
OverCap(n) == n > BatchCap

\* res.json({ results, count }) or the catch block's response
BatchResponse(m) ==
    [response |-> IF m.thrown THEN BatchValidationFailed
                  ELSE [status |-> 200,
                        body |-> [results |-> m.results,
                                  count |-> Len(m.results)]],
     calls |-> m.calls,
     index |-> m.index]

\* app.post('/validate/batch'): b is req.body.numbers
PostValidateBatch(b, ready, ixOpt) ==
    IF NotReady(ready)
    THEN [response |-> ServiceNotReady, calls |-> <<>>, index |-> ixOpt]
    ELSE IF b.type # "array"
    THEN [response |-> InvalidRequest, calls |-> <<>>, index |-> ixOpt]
    ELSE IF OverCap(Len(b.items))
    THEN [response |-> RequestTooLarge, calls |-> <<>>, index |-> ixOpt]
    ELSE BatchResponse(BatchMap(b.items, 1, Len(b.items), ixOpt))

-----------------------------------------------------------------------------
(* server.ts: startServer and the handlers as actions *)

\* for (const ch of r.prefix) raises a TypeError on a rule without prefix
BuildThrows(rs) == \E i \in 1..Len(rs) : rs[i].prefix = NoPrefix

\* the numbers asked of the server: digit strings, and strings the
\* normaliser rewrites or rejects
ServerNumbers ==
    StringsUpTo(NumberDigits, MaxInputLen - 1)
        \cup { <<"0", "1", "0">>, <<"+", "4", "4", "1">>, <<"0", " ", "1">>,
               <<"7">>, <<" ">> }

\* the query values of GET /validate: no number parameter, a repeated
\* parameter (an array), or a string
Queries ==
    { [type |-> "undefined", value |-> <<>>],
      [type |-> "object", value |-> <<>>] }
        \cup { [type |-> "string", value |-> s] : s \in ServerNumbers }

\* the items the modelled batches are made of
BatchPatterns ==
    { << <<"0", "1", "0">> >>,
      << <<"0", "1">>, <<"+", "4", "4", "1">> >>,
      << <<"0", "0">>, <<>>, <<"7">> >>,
      << <<"0", "1", "0">>, JsonNumber >> }

BatchSizes == {0, 1, 2, BatchCap, BatchCap + 1}

\* n items, the pattern repeated
Repeated(pattern, n) ==
    [i \in 1..n |-> pattern[((i - 1) % Len(pattern)) + 1]]

\* the values of req.body.numbers: none, a string, or an array
Batches ==
    { [type |-> "undefined", items |-> <<>>],
      [type |-> "string", items |-> <<>>] }
        \cup { [type |-> "array", items |-> Repeated(p, n)] :
                 p \in BatchPatterns, n \in BatchSizes }

\* the rule lists found in prefixes.json
ServerRuleLists ==
    { rs \in RuleLists : Len(rs) <= 1 }
        \cup { <<Rule(<<"0">>, MaxTotalLength, Allocated),
                 Rule(<<"0", "1">>, MaxTotalLength, Allocated)>>,
               <<Rule(<<"0">>, MaxTotalLength, Free),
                 Rule(<<"0", "1">>, MaxTotalLength, Allocated)>>,
               <<NoPrefixRule>> }

\* prefixes.json: missing, no JSON, or a rule list
ServerFiles ==
    { NoFile, [present |-> TRUE, parses |-> FALSE, rules |-> <<>>] }
        \cup { [present |-> TRUE, parses |-> TRUE, rules |-> rs] :
                 rs \in ServerRuleLists }

InitServer ==
    /\ ClassifyIdle
    /\ DownloadIdle
    /\ prefixesJson \in ServerFiles
    /\ srvPc = "start"
    /\ srvRules = <<>>
    /\ srvIndex = Undefined
    /\ isReady = FALSE
    /\ request = [endpoint |-> "none"]
    /\ response = [status |-> 0]
    /\ calls = <<>>

\* initializeValidator up to rules = JSON.parse(...); a missing file and a
\* parse error end in the catch block: process.exit(1)
LoadRules ==
    /\ srvPc = "start"
    /\ IF prefixesJson.present /\ prefixesJson.parses
       THEN /\ srvRules' = prefixesJson.rules
            /\ srvPc' = "loaded"
       ELSE /\ srvRules' = srvRules
            /\ srvPc' = "exited"
    /\ UNCHANGED <<srvIndex, isReady, request, response, calls>>
    /\ UNCHANGED <<classifyVars, prefixesJson, downloadVars>>

\* index = buildIndex(rules); a throw ends in process.exit(1)
BuildServerIndex ==
    /\ srvPc = "loaded"
    /\ IF BuildThrows(srvRules)
       THEN /\ srvIndex' = srvIndex
            /\ srvPc' = "exited"
       ELSE /\ srvIndex' = Some(buildIndex(srvRules))
            /\ srvPc' = "built"
    /\ UNCHANGED <<srvRules, isReady, request, response, calls>>
    /\ UNCHANGED <<classifyVars, prefixesJson, downloadVars>>

\* isReady = true
SetReady ==
    /\ srvPc = "built"
    /\ isReady' = TRUE
    /\ srvPc' = "ready"
    /\ UNCHANGED <<srvRules, srvIndex, request, response, calls>>
    /\ UNCHANGED <<classifyVars, prefixesJson, downloadVars>>

\* app.listen(PORT) without the await: the server listens while
\* initializeValidator has still to run
ListenAtOnce ==
    /\ srvPc \in {"start", "ready"}
    /\ srvPc' = "listening"
    /\ UNCHANGED <<srvRules, srvIndex, isReady, request, response, calls>>
    /\ UNCHANGED <<classifyVars, prefixesJson, downloadVars>>

\* app.listen(PORT), after await initializeValidator()
Listen ==
    /\ srvPc = "ready"
    /\ srvPc' = "listening"
    /\ UNCHANGED <<srvRules, srvIndex, isReady, request, response, calls>>
    /\ UNCHANGED <<classifyVars, prefixesJson, downloadVars>>

\* a handler has run on req: h holds its response, the numbers it gave
\* to the classifier and the index the calls left
Handled(req, h) ==
    /\ request' = req
    /\ response' = h.response
    /\ calls' = h.calls
    /\ srvIndex' = h.index

HandleGetValidate ==
    /\ srvPc = "listening"
    /\ \E q \in Queries :
          Handled([endpoint |-> "GET /validate", number |-> q],
                  GetValidate(q, isReady, srvIndex))
    /\ UNCHANGED <<srvPc, srvRules, isReady>>
    /\ UNCHANGED <<classifyVars, prefixesJson, downloadVars>>

HandlePostValidateBatch ==
    /\ srvPc = "listening"
    /\ \E b \in Batches :
          Handled([endpoint |-> "POST /validate/batch", numbers |-> b],
                  PostValidateBatch(b, isReady, srvIndex))
    /\ UNCHANGED <<srvPc, srvRules, isReady>>
    /\ UNCHANGED <<classifyVars, prefixesJson, downloadVars>>

\* app.get('/health') and app.get('/info'): both report isReady and
\* rules.length
HandleHealthOrInfo ==
    /\ srvPc = "listening"
    /\ \E e \in {"GET /health", "GET /info"} :
          /\ request' = [endpoint |-> e]
          /\ response' = [status |-> 200,
                          body |-> [ready |-> isReady,
                                    rulesLoaded |-> Len(srvRules)]]
    /\ calls' = <<>>
    /\ UNCHANGED <<srvPc, srvRules, srvIndex, isReady>>
    /\ UNCHANGED <<classifyVars, prefixesJson, downloadVars>>

\* the 404 handler
HandleNotFound ==
    /\ srvPc = "listening"
    /\ request' = [endpoint |-> "other"]
    /\ response' = [status |-> 404, body |-> [error |-> "Not found"]]
    /\ calls' = <<>>
    /\ UNCHANGED <<srvPc, srvRules, srvIndex, isReady>>
    /\ UNCHANGED <<classifyVars, prefixesJson, downloadVars>>

\* SIGTERM or SIGINT: process.exit(0)
Signal ==
    /\ srvPc = "listening"
    /\ srvPc' = "exited"
    /\ UNCHANGED <<srvRules, srvIndex, isReady, request, response, calls>>
    /\ UNCHANGED <<classifyVars, prefixesJson, downloadVars>>

ServerNext ==
    \/ LoadRules
    \/ BuildServerIndex
    \/ SetReady
    \/ Listen
    \/ HandleGetValidate
    \/ HandlePostValidateBatch
    \/ HandleHealthOrInfo
    \/ HandleNotFound
    \/ Signal

SpecServer == InitServer /\ [][ServerNext]_vars


-----------------------------------------------------------------------------
(* Claims about server.ts *)

\* the initialisation of the server fails on this prefixes.json
InitFails ==
    \/ ~prefixesJson.present
    \/ ~prefixesJson.parses
    \/ BuildThrows(prefixesJson.rules)

\* C15 (readiness gating): whenever isReady is true, rules holds the
\* content of prefixes.json and index the index built from all of it; a
\* failed initialisation leaves isReady false in the exited process; and
\* with isReady false both validation handlers answer 503 on every request
\* and give nothing to the classifier.
C15_ReadinessGating ==
    /\ isReady =>
          /\ srvRules = prefixesJson.rules
          /\ srvIndex = Some(buildIndex(prefixesJson.rules))
    /\ InitFails => (~isReady /\ srvPc \in {"start", "loaded", "exited"})
    /\ ~isReady =>
          /\ \A q \in Queries :
                /\ GetValidate(q, isReady, srvIndex).response.status = 503
                /\ GetValidate(q, isReady, srvIndex).calls = <<>>
          /\ \A b \in Batches :
                /\ PostValidateBatch(b, isReady, srvIndex).response.status = 503
                /\ PostValidateBatch(b, isReady, srvIndex).calls = <<>>

\* C15 witness: the listening server, ready, with the index of a rule list
\* that holds rules, has answered a request through the classifier.
C15_Witness ==
    /\ srvPc = "listening"
    /\ isReady
    /\ srvRules # <<>>
    /\ srvIndex = Some(buildIndex(srvRules))
    /\ response.status = 200
    /\ calls # <<>>

\* the other case of C15: the process has exited on a rule list that
\* buildIndex cannot index, rules assigned and index still null
C15_FailedBuildReached ==
    /\ srvPc = "exited"
    /\ srvRules # <<>>
    /\ srvIndex = Undefined
    /\ ~isReady

\* the cap the README gives for one batch
DocumentedBatchMax == 100

\* the items of a batch are strings
AllStrings(items) == \A i \in 1..Len(items) : items[i] # JsonNumber

\* C16 (batch cap): a batch request whose numbers is no array, or an array
\* of more than 100 items, is answered 400 with nothing given to the
\* classifier; an array of 0..100 strings is answered 200 with one result
\* per item, in the order of the items, and count the number of items.
C16_BatchCap ==
    request.endpoint = "POST /validate/batch" =>
        LET b == request.numbers
        IN  /\ b.type # "array" =>
                  (response.status = 400 /\ calls = <<>>)
            /\ (b.type = "array" /\ Len(b.items) > DocumentedBatchMax) =>
                  (response.status = 400 /\ calls = <<>>)
            /\ (/\ b.type = "array"
                /\ Len(b.items) <= DocumentedBatchMax
                /\ AllStrings(b.items)) =>
                  /\ response.status = 200
                  /\ Len(response.body.results) = Len(b.items)
                  /\ \A i \in 1..Len(b.items) :
                        response.body.results[i].number = b.items[i]
                  /\ response.body.count = Len(b.items)

\* C16 witness: a batch of exactly 100 strings answered with 100 results.
C16_Witness ==
    /\ request.endpoint = "POST /validate/batch"
    /\ request.numbers.type = "array"
    /\ Len(request.numbers.items) = DocumentedBatchMax
    /\ AllStrings(request.numbers.items)
    /\ response.status = 200
    /\ response.body.count = DocumentedBatchMax
    /\ calls # <<>>

\* the other side of the cap: 101 numbers turned away
C16_OverCapReached ==
    /\ request.endpoint = "POST /validate/batch"
    /\ request.numbers.type = "array"
    /\ Len(request.numbers.items) = DocumentedBatchMax + 1
    /\ response = RequestTooLarge


\* what the claim says one number's body holds, over the index of the
\* server's rules: null national and an INVALID result of the handler's own
\* when normalisation fails, the classifier's result otherwise
ClaimedBody(body, number) ==
    LET nat == normaliseToUkNational(number)
    IN  /\ body.number = number
        /\ IF Falsy(nat)
           THEN /\ body.national = Null
                /\ body.result = [class |-> NUMBER_INVALID, provider |-> Null]
           ELSE /\ body.national = nat
                /\ body.result = classifyUkNumber(nat, buildIndex(srvRules))

\* the numbers the claim lets the handler give to the classifier for the
\* items: the national forms of those the normaliser accepts
ClaimedCalls(items) ==
    SelectSeq([i \in 1..Len(items) |-> normaliseToUkNational(items[i])],
              LAMBDA n : ~Falsy(n))

\* C17 (single/batch equivalence): the entry a batch returns for a
\* non-empty string equals the body GET /validate returns for that string;
\* in both, a normalisation failure gives national null and the result
\* {NUMBER_INVALID, provider null} with no call of the classifier, and
\* otherwise the body carries the classifier's result as returned.
C17_SingleBatchEquivalence ==
    /\ (request.endpoint = "POST /validate/batch" /\ response.status = 200) =>
          LET items == request.numbers.items
          IN  /\ \A i \in 1..Len(items) :
                    /\ ClaimedBody(response.body.results[i], items[i])
                    /\ items[i] # <<>> =>
                          response.body.results[i] =
                              GetValidate([type |-> "string", value |-> items[i]],
                                          isReady, srvIndex).response.body
              /\ calls = ClaimedCalls(items)
    /\ (request.endpoint = "GET /validate" /\ response.status = 200) =>
          /\ ClaimedBody(response.body, request.number.value)
          /\ calls = ClaimedCalls(<<request.number.value>>)

\* C17 witness: a batch answered with an entry whose national form differs
\* from the number as sent and whose class comes from the classifier, and
\* equal to the body GET /validate gives for it.
C17_Witness ==
    /\ request.endpoint = "POST /validate/batch"
    /\ response.status = 200
    /\ \E i \in 1..Len(request.numbers.items) :
          LET e == response.body.results[i]
          IN  /\ e.national # Null
              /\ e.national # e.number
              /\ e.result.class = NUMBER_TOO_SHORT
              /\ e = GetValidate([type |-> "string", value |-> e.number],
                                 isReady, srvIndex).response.body

\* the other case of C17: an entry for a number the normaliser rejects
C17_NullNationalReached ==
    /\ request.endpoint = "POST /validate/batch"
    /\ response.status = 200
    /\ \E i \in 1..Len(request.numbers.items) :
          /\ request.numbers.items[i] # <<>>
          /\ response.body.results[i].national = Null


\* the index built from prefixes.json, as no request has touched it
FreshIndex == Some(buildIndex(prefixesJson.rules))

\* the response the last request would get as the only request the
\* server ever handled
AloneResponse ==
    CASE request.endpoint = "GET /validate" ->
            GetValidate(request.number, TRUE, FreshIndex).response
      [] request.endpoint = "POST /validate/batch" ->
            PostValidateBatch(request.numbers, TRUE, FreshIndex).response
      [] OTHER -> response

\* once the server listens, no step changes index or rules
IndexKept ==
    srvPc = "listening" => (srvIndex' = srvIndex /\ srvRules' = srvRules)

-----------------------------------------------------------------------------
(* download.ts: rangeToRule and the status filter *)

\* the total lengths rangeToRule gives to 01/02, 07 and 03/08/09 ranges
GeographicLength == 11
MobileLength == 11
NonGeographicLength == 11

\* the characters String.prototype.trim removes
WhitespaceChars == {" ", "\t", "\n", "\r"}

\* String.prototype.trim
Trim(s) ==
    LET kept == { i \in 1..Len(s) : s[i] \notin WhitespaceChars }
    IN  IF kept = {} THEN <<>>
        ELSE SubSeq(s, CHOOSE i \in kept : \A j \in kept : i <= j,
                       CHOOSE i \in kept : \A j \in kept : i >= j)

\* the number of characters "x" at the end of s
RECURSIVE TrailingXs(_)
TrailingXs(s) ==
    IF s = <<>> \/ s[Len(s)] # "x" THEN 0
    ELSE 1 + TrailingXs(SubSeq(s, 1, Len(s) - 1))

\* the total length of a range that starts without its leading zero
LengthOfNational(nationalDigits) ==
    IF StartsWith(nationalDigits, <<"0", "1">>)
          \/ StartsWith(nationalDigits, <<"0", "2">>)
    THEN GeographicLength
    ELSE IF StartsWith(nationalDigits, <<"0", "7">>)
    THEN MobileLength
    ELSE IF \/ StartsWith(nationalDigits, <<"0", "3">>)
            \/ StartsWith(nationalDigits, <<"0", "8">>)
            \/ StartsWith(nationalDigits, <<"0", "9">>)
    THEN NonGeographicLength
    ELSE Len(nationalDigits)

\* the fallback of rangeToRule: digits followed by a run of x
RangeFormatRule(range, status, provider) ==
    LET cleaned == SelectSeq(ToLower(range),
                             LAMBDA c : c \in DigitChars \cup {"x"})
        xCount == TrailingXs(cleaned)
        prefix == SubSeq(cleaned, 1, Len(cleaned) - xCount)
    IN  IF cleaned = <<>> THEN Undefined
        ELSE IF prefix = <<>> \/ \E i \in 1..Len(prefix) : prefix[i] = "x"
        THEN Undefined
        ELSE Some([prefix |-> prefix,
                   totalLength |-> Len(prefix) + xCount,
                   status |-> status,
                   provider |-> provider])

\* rangeToRule with its short-code branch tried first: a range of up to six
\* digits that starts with "1" is kept as it is
rangeToRuleShortCodes(range, status, provider) ==
    LET digits == StripNonDigits(range)
    IN  IF range = <<>> \/ digits = <<>> THEN Undefined
        ELSE IF digits[1] = "1" /\ Len(digits) <= 6
        THEN Some([prefix |-> digits,
                   totalLength |-> Len(digits),
                   status |-> status,
                   provider |-> provider])
        ELSE IF digits[1] \in {"1", "2", "3", "7", "8", "9"}
        THEN Some([prefix |-> <<"0">> \o digits,
                   totalLength |-> LengthOfNational(<<"0">> \o digits),
                   status |-> status,
                   provider |-> provider])
        ELSE RangeFormatRule(range, status, provider)

\* rangeToRule: the rule of a range cell as an option (null: no rule)
rangeToRule(range, status, provider) ==
    LET digits == StripNonDigits(range)
    IN  IF range = <<>> \/ digits = <<>> THEN Undefined
        ELSE IF digits[1] \in {"1", "2", "3", "7", "8", "9"}
        THEN Some([prefix |-> <<"0">> \o digits,
                   totalLength |-> LengthOfNational(<<"0">> \o digits),
                   status |-> status,
                   provider |-> provider])
        ELSE RangeFormatRule(range, status, provider)

\* the status test without its anchors: /(Allocated|Allocated\(Closed Range\))/i
IsDiallableUnanchored(status) ==
    LET t == ToLower(Trim(status))
    IN  \/ Contains(t, ToLower(Allocated))
        \/ Contains(t, ToLower(AllocatedClosedRange))

\* the classifier's status test in place of the download filter: every
\* status that is not dead is kept
IsDiallableNotDead(status) == ~IsDeadStatus(status)

\* /^(Allocated|Allocated\(Closed Range\))$/i.test(rule.status.trim())
IsDiallable(status) ==
    LET t == ToLower(Trim(status))
    IN  t = ToLower(Allocated) \/ t = ToLower(AllocatedClosedRange)

\* the rules the loop over the rows of one sheet pushes, from row i on
RECURSIVE RulesOfRows(_, _)
RulesOfRows(rows, i) ==
    IF i > Len(rows) THEN <<>>
    ELSE LET rule == rangeToRule(rows[i].range, rows[i].status,
                                 rows[i].provider)
         IN  (IF rule # Undefined /\ IsDiallable(rule[1].status)
              THEN rule ELSE <<>>) \o RulesOfRows(rows, i + 1)

\* the key of a rule in the de-duplication map
UniqKey(r) ==
    r.prefix \o <<"|">> \o Decimal(r.totalLength) \o <<"|">> \o r.status
        \o <<"|">> \o r.provider

\* Array.from(uniq.values()): one rule per key, at the place of the key's
\* first rule and with the value of its last
Uniq(rs) ==
    LET firsts == { i \in 1..Len(rs) :
                      \A j \in 1..(i - 1) : UniqKey(rs[j]) # UniqKey(rs[i]) }
        LastOf(i) == CHOOSE j \in 1..Len(rs) :
                        /\ UniqKey(rs[j]) = UniqKey(rs[i])
                        /\ \A k \in (j + 1)..Len(rs) :
                              UniqKey(rs[k]) # UniqKey(rs[i])
        place == [i \in 1..Len(rs) |-> i \in firsts]
        marked == [i \in 1..Len(rs) |-> [keep |-> place[i], rule |-> rs[LastOf(i)]]]
        kept == SelectSeq(marked, LAMBDA m : m.keep)
    IN  [i \in 1..Len(kept) |-> kept[i].rule]


-----------------------------------------------------------------------------
(* download.ts: the main function *)

\* how many of the files of FILES the model downloads
MaxFiles == 2

AllFiles == <<"s1.csv", "s3.csv", "s5.csv", "s7.csv", "s8.csv", "s9.csv">>
FILES == SubSeq(AllFiles, 1, MaxFiles)

\* statuses of sheet rows beside those of SheetStatuses: padded, in other
\* case, and longer texts that hold the word Allocated
AllocatedPadded == <<" ", "A","l","l","o","c","a","t","e","d", " ">>
AllocatedUpper == <<"A","L","L","O","C","A","T","E","D">>
ClosedRangeLower ==
    <<"a","l","l","o","c","a","t","e","d","(","c","l","o","s","e","d"," ","r","a","n","g","e",")", "\t">>
AllocatedSpaceClosedRange ==
    <<"A","l","l","o","c","a","t","e","d"," ","(","C","l","o","s","e","d"," ","R","a","n","g","e",")">>
NotAllocated == <<"N","o","t"," ","A","l","l","o","c","a","t","e","d">>

\* a row of a parsed sheet, as the three cells the loop reads from it
Row(range, status, provider) ==
    [range |-> range, status |-> status, provider |-> provider]

BT == <<"B", "T">>

\* the sheets a file may hold
Sheets ==
    { << Row(<<"2", "0">>, Allocated, BT),
         Row(<<"2", "0">>, Protected, BT),
         Row(<<"0", "1", "x", "x">>, Free, <<>>),
         Row(<<"2", "0">>, Allocated, BT) >>,
      << Row(<<"7", " ", "1">>, AllocatedPadded, BT),
         Row(<<"5", "6">>, AllocatedClosedRange, <<>>),
         Row(<<"5", "6">>, AllocatedSpaceClosedRange, BT),
         Row(<<"5", "6">>, NotAllocated, BT) >>,
      << Row(<<"0", "x", "1">>, Allocated, BT),
         Row(<<>>, Allocated, BT),
         Row(<<"3">>, ClosedRangeLower, BT),
         Row(<<"3">>, Unavailable, BT),
         Row(<<"3">>, Withdrawn, BT) >>,
      << Row(<<"8", "0", "0">>, FreeForAllocation, <<>>),
         Row(<<"8", "0", "0">>, AllocatedUpper, BT),
         Row(<<"9">>, Reserved, BT),
         Row(<<"9">>, Quarantined, BT),
         Row(<<"9">>, Designated, BT),
         Row(<<"9">>, NoStatus, BT) >>,
      << Row(<<"0", "1", "x">>, Protected, BT),
         Row(<<"0", "0", "x">>, Allocated, BT) >>,
      << Row(<<"0", "1", "1", "1">>, Allocated, BT) >>,
      <<>> }

\* the data directory: for each file a sheet, or nothing
NotCached == Undefined
Caches == [1..Len(FILES) -> {NotCached} \cup {Some(s) : s \in Sheets}]

\* process.argv.slice(2)
ArgLists == { <<>>, <<"--no-fetch">>, <<"-n">>, <<"--verbose">> }

\* args.includes(a)
Includes(as, a) == \E i \in 1..Len(as) : as[i] = a

InitDownload ==
    /\ ClassifyIdle
    /\ ServerIdle
    /\ prefixesJson = NoFile
    /\ dlPc = "start"
    /\ args \in ArgLists
    /\ noFetch = FALSE
    /\ cache \in Caches
    /\ fetched = {}
    /\ fileIx = 0
    /\ dlRules = <<>>

\* const noFetch = args.includes('--no-fetch') || args.includes('-n')
ParseArgs ==
    /\ dlPc = "start"
    /\ noFetch' = (Includes(args, "--no-fetch") \/ Includes(args, "-n"))
    /\ fileIx' = 1
    /\ dlPc' = "files"
    /\ UNCHANGED <<args, cache, fetched, dlRules>>
    /\ UNCHANGED <<classifyVars, prefixesJson, serverVars>>

\* pullOne's test: if (noFetch && fs.existsSync(cachedFile))
UseCache(nf, cached) == nf /\ cached # NotCached

\* one round of the loop over FILES, pullOne reading the cached file
PullCached ==
    /\ dlPc = "files"
    /\ fileIx <= Len(FILES)
    /\ UseCache(noFetch, cache[fileIx])
    /\ dlRules' = dlRules \o RulesOfRows(cache[fileIx][1], 1)
    /\ fileIx' = fileIx + 1
    /\ UNCHANGED <<dlPc, args, noFetch, cache, fetched>>
    /\ UNCHANGED <<classifyVars, prefixesJson, serverVars>>

\* one round of the loop over FILES, pullOne fetching the file: the fetch
\* fails (the round's catch block skips the file) or gives a sheet, which
\* is written to the data directory
PullFetched ==
    /\ dlPc = "files"
    /\ fileIx <= Len(FILES)
    /\ ~UseCache(noFetch, cache[fileIx])
    /\ fetched' = fetched \cup {FILES[fileIx]}
    /\ \/ UNCHANGED <<cache, dlRules>>
       \/ \E s \in Sheets :
             /\ cache' = [cache EXCEPT ![fileIx] = Some(s)]
             /\ dlRules' = dlRules \o RulesOfRows(s, 1)
    /\ fileIx' = fileIx + 1
    /\ UNCHANGED <<dlPc, args, noFetch>>
    /\ UNCHANGED <<classifyVars, prefixesJson, serverVars>>

\* the de-duplication and fs.writeFileSync("prefixes.json", ...)
WritePrefixes ==
    /\ dlPc = "files"
    /\ fileIx > Len(FILES)
    /\ prefixesJson' = [present |-> TRUE, parses |-> TRUE,
                        rules |-> Uniq(dlRules)]
    /\ dlPc' = "written"
    /\ UNCHANGED <<args, noFetch, cache, fetched, fileIx, dlRules>>
    /\ UNCHANGED <<classifyVars, serverVars>>

DownloadNext == ParseArgs \/ PullCached \/ PullFetched \/ WritePrefixes

SpecDownload == InitDownload /\ [][DownloadNext]_vars


-----------------------------------------------------------------------------
(* Claims about download.ts *)

\* the two statuses of the claim, in lower case
ClaimedDiallable ==
    { <<"a","l","l","o","c","a","t","e","d">>,
      <<"a","l","l","o","c","a","t","e","d","(","c","l","o","s","e","d"," ","r","a","n","g","e",")">> }

\* statuses the claim names as never emitted, and others of the sheets
NeverEmitted ==
    { Free, Protected, Unavailable, Withdrawn, FreeForAllocation, Reserved,
      Quarantined, Designated, NoStatus, NotAllocated,
      AllocatedSpaceClosedRange }

\* C19 (download filter): every rule collected for prefixes.json and every
\* rule written to it has a status that, trimmed and in lower case, is
\* "allocated" or "allocated(closed range)"; no rule with another status
\* is emitted.
C19_DownloadFilter ==
    /\ \A i \in 1..Len(dlRules) :
          /\ ToLower(Trim(dlRules[i].status)) \in ClaimedDiallable
          /\ dlRules[i].status \notin NeverEmitted
    /\ \A i \in 1..Len(prefixesJson.rules) :
          /\ ToLower(Trim(prefixesJson.rules[i].status)) \in ClaimedDiallable
          /\ prefixesJson.rules[i].status \notin NeverEmitted

\* a row of a cached sheet has status s
SheetRowWith(s) ==
    \E f \in 1..Len(FILES) :
        /\ cache[f] # NotCached
        /\ \E i \in 1..Len(cache[f][1]) : cache[f][1][i].status = s

\* C19 witness: prefixes.json written from sheets that hold Protected and
\* "Not Allocated" rows, with a rule whose status is Allocated only after
\* trimming.
C19_Witness ==
    /\ dlPc = "written"
    /\ SheetRowWith(Protected)
    /\ SheetRowWith(NotAllocated)
    /\ fetched # {}
    /\ \E i \in 1..Len(prefixesJson.rules) :
          prefixesJson.rules[i].status = AllocatedPadded

\* C20 (no-fetch mode): with --no-fetch or -n among the arguments the
\* script requests no CSV file from the network.
C20_NoFetchNoRequest ==
    (Includes(args, "--no-fetch") \/ Includes(args, "-n")) => fetched = {}


-----------------------------------------------------------------------------
(* Rules as rangeToRule produces them, classified *)

\* the longest range cell of the enumerated cells
MaxRangeLen == 3

\* a range cell of eleven digits, and one of three digits and eight x
LongRange == <<"1", "2", "3", "4", "5", "6", "7", "8", "9", "0", "1">>
XRange == <<"0", "2", "0", " ", "x", "x", "x", "x", " ", "x", "x", "x", "x">>

\* range cells: short cells over digits, x, X and a space, and the two
\* long ones
RangeChars == {"0", "1", "5", "x", "X", " "}
RangeCells ==
    StringsUpTo(RangeChars, MaxRangeLen) \cup {LongRange, XRange}

\* the rules rangeToRule returns for the cells
ProducedRules ==
    { rangeToRule(c, s, BT)[1] :
        c \in { k \in RangeCells : rangeToRule(k, Allocated, BT) # Undefined },
        s \in {Allocated, Protected} }

\* the rule lists of the producer: one produced rule, alone or beside a
\* rule of 01
ProducedRuleLists ==
    { <<>> } \cup { <<r>> : r \in ProducedRules }
        \cup { <<r, rangeToRule(<<"1">>, Allocated, BT)[1]>> : r \in ProducedRules }

\* numbers whose canonical form starts with "1", and others
ProducerInputs ==
    { <<"1">>, <<"1", "0">>, <<"1", "1">>, <<"1", "5", "0">>, <<"1", " ", "1">>,
      <<"0", "1">>, <<"+", "4", "4", "1">>, <<"0", "5">>, <<"5">>, <<>> }

InitProducer == InitWith(ProducerInputs, ProducedRuleLists)
SpecProducer == InitProducer /\ [][Next]_vars

-----------------------------------------------------------------------------
(* performance-test.ts: the test numbers it draws from the loaded rules *)

\* the digit strings Array.from({length: k}, random digit) can return
RandomDigits(k) ==
    IF k <= 0 THEN {<<>>}
    ELSE { s \in StringsUpTo(NumberDigits, k) : Len(s) = k }

\* number.replace(/(\d{a})(\d{b})(\d{c})/, '$1 $2 $3'): the first a+b+c
\* digits are split into three groups
Grouped(number, a, b, c) ==
    IF Len(number) < a + b + c THEN number
    ELSE SubSeq(number, 1, a) \o <<" ">> \o SubSeq(number, a + 1, a + b)
            \o <<" ">> \o SubSeq(number, a + b + 1, Len(number))

Plus44(number) == <<"+", "4", "4">> \o Slice(number, 1)
Zero044(number) == <<"0", "0", "4", "4">> \o Slice(number, 1)

\* rule.prefix followed by the remaining digits
FullLengthNumbers(rule) ==
    { rule.prefix \o t : t \in RandomDigits(rule.totalLength - Len(rule.prefix)) }

\* the spellings generateValidNumberFromRule chooses among; the groups of
\* 3-3-4 and 2-4-4 digits are scaled to the modelled lengths
Spellings(number) ==
    { number, Grouped(number, 1, 1, 1), Grouped(number, 2, 1, 1),
      Plus44(number), Zero044(number) }

generateValidNumberFromRule(rule) ==
    UNION { Spellings(number) : number \in FullLengthNumbers(rule) }

Max(a, b) == IF a >= b THEN a ELSE b

generateShortNumberFromRule(rule) ==
    { rule.prefix \o t :
        t \in RandomDigits(Max(1, rule.totalLength - Len(rule.prefix) - 1)) }

\* the statuses performance-test.ts takes valid numbers from
ValidStatuses ==
    { Allocated, Protected, AllocatedClosedRange, Quarantined, Designated,
      Reserved }

\* "5" is a prefix download.ts emits for a range cell 5...: the producer
\* puts no 0 before it
GeneratedPrefixes == Prefixes \cup {<<"5">>}

\* one rule of any status, or two rules that may overlap
GeneratedRuleLists ==
    { <<r>> : r \in RulesOver(GeneratedPrefixes, ValidStatuses \cup {Free}) }
        \cup { <<r, q>> : r \in RulesOver(Prefixes, {Allocated, Protected, Free}),
                           q \in RulesOver(Prefixes, {Allocated, Protected, Free}) }

generateTestNumbers(rs) ==
    UNION { generateValidNumberFromRule(rs[i]) \cup generateShortNumberFromRule(rs[i]) :
              i \in 1..Len(rs) }

InitGenerated ==
    \E rs \in GeneratedRuleLists : InitWith(generateTestNumbers(rs), {rs})

SpecGenerated == InitGenerated /\ [][Next]_vars


-----------------------------------------------------------------------------
(* Valid numbers from rules *)

\* the classification of the test number has returned
Answered == pc = "done"

\* positions of the rules with one of the six statuses from which the input
\* is a full-length number, in any spelling
ValidSources ==
    { i \in 1..Len(rules) :
        /\ rules[i].status \in ValidStatuses
        /\ input \in generateValidNumberFromRule(rules[i]) }

NationalSpellings(number) ==
    { number, Grouped(number, 1, 1, 1), Grouped(number, 2, 1, 1) }
InternationalSpellings(number) == { Plus44(number), Zero044(number) }

\* no longer live rule takes the number for an unfinished one
NotTakenAsTooShort(number) ==
    LiveExact(number) # {} \/ LiveLonger(number) = {}

-----------------------------------------------------------------------------
(* Too-short numbers from rules *)

\* positions of the live rules from which the input is a short number
ShortSources ==
    { i \in 1..Len(rules) :
        /\ ~IsDeadStatus(rules[i].status)
        /\ input \in generateShortNumberFromRule(rules[i]) }

RoomForTwo(rule) == rule.totalLength >= Len(rule.prefix) + 2

-----------------------------------------------------------------------------
(* Dead-status numbers *)

\* positions of the dead rules from which the input, as typed, is a
\* full-length number that no live rule covers
DeadSources ==
    { i \in 1..Len(rules) :
        /\ IsDeadStatus(rules[i].status)
        /\ input \in FullLengthNumbers(rules[i])
        /\ LiveMatching(input) = {} }

C24_OwnNodeReached ==
    /\ Answered
    /\ \E i \in DeadSources : rules[i].prefix = input
    /\ result.class = NUMBER_TOO_SHORT


-----------------------------------------------------------------------------
(* VALID and totalLength *)

\* C26: whenever the classifier returns NUMBER_VALID, some live rule whose
\* prefix is an initial substring of the number has totalLength equal to
\* the number's digit count
C26_ValidRespectsTotalLength ==
    (Classified /\ result.class = NUMBER_VALID)
        => LiveSameLength(national) # {}

\* the exact-match tier answers for a number shorter than the totalLength
\* of every live rule over it
C26_ShortExactMatchReached ==
    /\ Classified
    /\ result.class = NUMBER_VALID
    /\ LiveExact(national) # {}
    /\ \A i \in LiveMatching(national) : rules[i].totalLength > Len(national)


\* the rule 01 of three digits and the number 01
C26_FailingInputReached ==
    /\ Classified
    /\ rules = <<Rule(<<"0", "1">>, MaxTotalLength, Allocated)>>
    /\ national = <<"0", "1">>
    /\ result.class = NUMBER_VALID


-----------------------------------------------------------------------------
(* Rule well-formedness at the producer *)

WellFormed(rule) ==
    /\ rule.prefix # <<>>
    /\ \A i \in 1..Len(rule.prefix) : rule.prefix[i] \in DigitChars
    /\ rule.totalLength >= Len(rule.prefix)

\* C27: every rule rangeToRule of download.ts returns has a non-empty
\* digit-only prefix and totalLength >= len(prefix)
C27_ProducedRulesWellFormed ==
    \A i \in 1..Len(rules) : WellFormed(rules[i])

\* the rule made from a range cell of eleven digits has a prefix of twelve
C27_LongRangeReached ==
    /\ Len(rules) > 0
    /\ rules[1] = rangeToRule(LongRange, Allocated, BT)[1]
    /\ Len(rules[1].prefix) = Len(LongRange) + 1
    /\ rules[1].totalLength = GeographicLength


-----------------------------------------------------------------------------
(* INVALID under extension *)

\* the walk over the number ends before its last digit: the trie has no
\* node for the number
WalkLeavesTrie(d, index) == NodeAt(index, d) = Undefined

\* C28: when a non-empty number is NUMBER_INVALID, so is the number
\* followed by any further digits, and its walk has left the trie
C28_InvalidIsFinal ==
    (Classified /\ result.class = NUMBER_INVALID) =>
        /\ \A e \in Extensions(national) :
              classifyUkNumber(e, idx).class = NUMBER_INVALID
        /\ WalkLeavesTrie(national, idx)

\* an invalid number that starts like a rule's prefix and goes on with a
\* digit the trie has no child for
C28_Witness ==
    /\ Classified
    /\ result.class = NUMBER_INVALID
    /\ Len(national) > 1
    /\ \E i \in 1..Len(rules) :
          /\ StartsWith(national, rules[i].prefix)
          /\ ~IsDeadStatus(rules[i].status)
    /\ WalkLeavesTrie(national, idx)
    /\ \E e \in Extensions(national) :
          classifyUkNumber(e, idx).class = NUMBER_INVALID


-----------------------------------------------------------------------------
(* A dead rule at the number's own node *)

\* the index holds one rule, and its status is dead
OnlyDeadRule == Len(rules) = 1 /\ IsDeadStatus(rules[1].status)

\* C29: when the only rule is a dead-status rule with prefix p,
\* classifyUkNumber(p) is NUMBER_TOO_SHORT with no provider and
\* classifyUkNumber(p followed by any digit) is NUMBER_INVALID
C29_DeadRuleAtOwnNode ==
    (Classified /\ OnlyDeadRule) =>
        /\ national = rules[1].prefix =>
              /\ result = [class |-> NUMBER_TOO_SHORT, provider |-> NoProvider]
              /\ \A c \in ExtensionDigits :
                    classifyUkNumber(Append(national, c), idx).class
                        = NUMBER_INVALID
        /\ (Len(national) = Len(rules[1].prefix) + 1
              /\ StartsWith(national, rules[1].prefix))
              => result.class = NUMBER_INVALID

\* the Free rule's own prefix has been classified
C29_Witness ==
    /\ Classified
    /\ OnlyDeadRule
    /\ national = rules[1].prefix
    /\ rules[1].totalLength > Len(national)
    /\ result.class = NUMBER_TOO_SHORT

\* the prefix followed by one digit has been classified
C29_OneDigitMoreReached ==
    /\ Classified
    /\ OnlyDeadRule
    /\ Len(national) = Len(rules[1].prefix) + 1
    /\ StartsWith(national, rules[1].prefix)
    /\ result.class = NUMBER_INVALID


-----------------------------------------------------------------------------
(* Listen after initialisation *)

\* some handler has answered a request
RequestHandled == request.endpoint # "none"

\* C30: the server listens only after initializeValidator has set isReady,
\* so every request is handled with isReady true and no response is the
\* 503 "Service not ready"; a failed initialisation never listens
C30_ListenAfterInit ==
    /\ [](srvPc = "listening" => isReady)
    /\ [](RequestHandled => isReady /\ response.status # ServiceNotReady.status)
    /\ [](InitFails => srvPc \notin {"ready", "listening"} /\ ~RequestHandled)
    /\ [][request' # request \/ response' # response
            => srvPc = "listening" /\ isReady]_vars

\* a validation request answered by the listening server
C30_Witness ==
    /\ srvPc = "listening"
    /\ isReady
    /\ request.endpoint = "GET /validate"
    /\ response.status = 200

\* the process has exited on a failed initialisation
C30_FailedInitExited ==
    /\ InitFails
    /\ srvPc = "exited"
    /\ ~isReady
    /\ ~RequestHandled


-----------------------------------------------------------------------------
(* download.ts, then run-tests.ts on the prefixes.json it wrote *)

\* the sheets in the data directory are the ones the run reads: either
\* nothing is cached, or the run is told not to fetch
InitEndToEnd ==
    /\ InitDownload
    /\ \/ args = <<>> /\ \A f \in 1..Len(FILES) : cache[f] = NotCached
       \/ args = <<"-n">>

NationalOfProtected == <<"0", "1", "1">>
EndToEndInputs ==
    { NationalOfProtected, <<"0", "1", " ", "0">>, <<"+", "4", "4", "1", "1">>,
      <<"0", "0", "1">>, <<"0", "1">>, <<"5", "6">>,
      <<"0", "2", "0", "0", "0", "0", "0", "0", "0", "0", "0">> }

\* main of run-tests.ts: rules = JSON.parse(prefixes.json), then one call
\* classify(input, rules)
RunTest ==
    /\ dlPc = "written"
    /\ pc = "idle"
    /\ prefixesJson.present
    /\ rules' = prefixesJson.rules
    /\ input' \in EndToEndInputs
    /\ pc' = "start"
    /\ UNCHANGED <<national, idx, matchedRules, live, result>>
    /\ UNCHANGED <<prefixesJson, serverVars, downloadVars>>

EndToEndNext == DownloadNext \/ RunTest \/ Next

SpecEndToEnd == InitEndToEnd /\ [][EndToEndNext]_vars

\* the rows of the sheets the run has read
SourceRows ==
    UNION { { cache[f][1][i] : i \in 1..Len(cache[f][1]) } :
              f \in { g \in 1..Len(FILES) : cache[g] # NotCached } }

\* the source ranges that cover the number: rows whose range, as
\* rangeToRule reads it, is an initial substring of the number
CoveringRows(number) ==
    { row \in SourceRows :
        LET rule == rangeToRule(row.range, row.status, row.provider)
        IN  rule # Undefined /\ StartsWith(number, rule[1].prefix) }

\* the number has the full length of a Protected range over it, and every
\* range over it is Protected
OnlyProtectedCover(number) ==
    /\ \E row \in CoveringRows(number) :
          rangeToRule(row.range, row.status, row.provider)[1].totalLength
              = Len(number)
    /\ \A row \in CoveringRows(number) : row.status = Protected

\* C25 as stated: with the rule set download.ts emits, a full-length
\* number whose only covering source ranges are Protected is classified
\* NUMBER_INVALID
C25_ProtectedInvalid ==
    (Classified /\ dlPc = "written" /\ OnlyProtectedCover(national))
        => result.class = NUMBER_INVALID

\* C25 amended: such a number is never NUMBER_VALID; it is NUMBER_INVALID
\* when no emitted rule's prefix starts with the number, and
\* NUMBER_TOO_SHORT with no provider when one does
C25_ProtectedNeverValid ==
    (Classified /\ dlPc = "written" /\ OnlyProtectedCover(national))
        => result = IF RuleAtOrBelow(national)
                    THEN [class |-> NUMBER_TOO_SHORT, provider |-> NoProvider]
                    ELSE [class |-> NUMBER_INVALID, provider |-> NoProvider]

\* the number of a Protected range, typed with a space, is invalid although
\* the emitted rules share its first digit
C25_Witness ==
    /\ Classified
    /\ dlPc = "written"
    /\ OnlyProtectedCover(national)
    /\ input # national
    /\ Len(rules) > 0
    /\ result.class = NUMBER_INVALID

\* an Allocated range of four digits lies below the Protected number
C25_RuleBelowReached ==
    /\ Classified
    /\ dlPc = "written"
    /\ OnlyProtectedCover(national)
    /\ national = NationalOfProtected
    /\ result.class = NUMBER_TOO_SHORT

====
